---- MODULE Spec2Model ----
(***************************************************************************)
(* Blood sugar statistics tracker (src/index.ts): addMeasurement,          *)
(* getCurrentPeriodStats and switchPeriod over a BloodSugarAppState.       *)
(*                                                                         *)
(* A JavaScript number is modelled as a pair <<n, d>> with d >= 0:         *)
(*   d > 0   the finite rational n/d in lowest terms,                      *)
(*   <<1,0>> Infinity, <<-1,0>> -Infinity, <<0,0>> NaN.                    *)
(* Arithmetic is exact (no binary rounding) and there is no negative zero; *)
(* division by zero and NaN follow IEEE 754 as JavaScript does.            *)
(* null is the empty tuple.  Objects that the code shares by reference     *)
(* (the per-period records) live in a heap: a state object maps each       *)
(* period label to a reference, and heap maps references to records.       *)
(***************************************************************************)
EXTENDS Integers, Sequences, FiniteSets, TLC

VARIABLES state, heap, hist, lastOp

vars == <<state, heap, hist, lastOp>>

(* Bound of the exploration: how many readings are recorded in one run.    *)
MaxRecords == 2

----------------------------------------------------------------------------
(* JavaScript numbers *)

Null == <<>>

NaN == <<0, 0>>

PosInf == <<1, 0>>

NegInf == <<-1, 0>>

Abs(i) == IF i < 0 THEN -i ELSE i

Sign(i) == IF i < 0 THEN -1 ELSE IF i > 0 THEN 1 ELSE 0

RECURSIVE GCD(_, _)
GCD(a, b) == IF b = 0 THEN a ELSE GCD(b, a % b)

(* n/d for d >= 0, in lowest terms *)
Norm(n, d) ==
  IF d = 0 THEN <<Sign(n), 0>>
  ELSE LET g == GCD(Abs(n), d) IN <<n \div g, d \div g>>

FromInt(i) == <<i, 1>>

Rat(n, d) == Norm(n, d)

IsNaN(a) == a = NaN

IsFinite(a) == a[2] > 0

RatMul(a, b) == Norm(a[1] * b[1], a[2] * b[2])

RatAdd(a, b) ==
  IF a[2] = 0 /\ b[2] = 0
  THEN (IF a = b THEN a ELSE NaN)
  ELSE Norm(a[1] * b[2] + b[1] * a[2], a[2] * b[2])

Recip(a) == IF a[1] < 0 THEN <<-a[2], -a[1]>> ELSE <<a[2], a[1]>>

RatDiv(a, b) == RatMul(a, Recip(b))

(* a < b, false when either is NaN *)
RatLess(a, b) ==
  /\ ~IsNaN(a)
  /\ ~IsNaN(b)
  /\ IF a[2] = 0 /\ b[2] = 0 THEN a[1] < b[1]
     ELSE a[1] * b[2] < b[1] * a[2]

RatGreater(a, b) == RatLess(b, a)

RatLeq(a, b) == ~IsNaN(a) /\ ~IsNaN(b) /\ (a = b \/ RatLess(a, b))

RatGeq(a, b) == RatLeq(b, a)

(* x ?? 0 *)
OrZero(x) == IF x = Null THEN FromInt(0) ELSE x

----------------------------------------------------------------------------
(* Data *)

PeriodLabels == {"7", "14", "30", "90"}

(* Own property names of Object.prototype that a lookup on a plain object  *)
(* finds through the prototype chain.                                      *)
ObjectPrototypeKeys == {"toString", "constructor", "valueOf", "hasOwnProperty"}

NoCategory == "undefined"

TimeCategories ==
  {"beforeBreakfast", "afterBreakfast", "beforeLunch", "afterLunch",
   "beforeDinner", "afterDinner", "beforeSleep", "random"}

(* today minus days, kept as the offset *)
CalculateDateOffset(days) == days

EmptyCounters == [veryHigh |-> 0, high |-> 0, normal |-> 0, low |-> 0]

EmptyTimeStats == [c \in {} |-> NaN]

FreshPeriod(days) ==
  [startDate |-> CalculateDateOffset(days),
   endDate   |-> CalculateDateOffset(0),
   average   |-> Null,
   highest   |-> Null,
   lowest    |-> Null,
   counters  |-> EmptyCounters,
   timeStats |-> EmptyTimeStats]

InitialRange ==
  [veryHigh |-> FromInt(9),
   high     |-> <<FromInt(6), FromInt(9)>>,
   normal   |-> <<FromInt(4), FromInt(6)>>,
   low      |-> FromInt(4)]

(* reference of the record that initialState holds under each label *)
RefOf(label) ==
  CASE label = "7" -> 1 [] label = "14" -> 2 [] label = "30" -> 3 [] label = "90" -> 4

DaysOf(ref) ==
  CASE ref = 1 -> 7 [] ref = 2 -> 14 [] ref = 3 -> 30 [] ref = 4 -> 90

InitialHeap == [r \in 1..4 |-> FreshPeriod(DaysOf(r))]

initialState ==
  [range         |-> InitialRange,
   statsByPeriod |-> [l \in PeriodLabels |-> RefOf(l)],
   currentPeriod |-> "7"]

----------------------------------------------------------------------------
(* Property lookup obj[key] on a plain object: own property, else the      *)
(* property inherited from Object.prototype, else undefined.               *)
Lookup(obj, key) ==
  IF key \in DOMAIN obj THEN [tag |-> "ref", ref |-> obj[key]]
  ELSE IF key \in ObjectPrototypeKeys THEN [tag |-> "inherited", ref |-> 0]
  ELSE [tag |-> "undefined", ref |-> 0]

Truthy(v) == v.tag # "undefined"

----------------------------------------------------------------------------
(* addMeasurement *)

(* Variant that tests the normal band before the high band.               *)
ClassifyNormalFirst(range, level) ==
  IF RatGreater(level, range.veryHigh) THEN "veryHigh"
  ELSE IF RatGeq(level, range.normal[1]) /\ RatLeq(level, range.normal[2]) THEN "normal"
  ELSE IF RatGeq(level, range.high[1]) /\ RatLeq(level, range.high[2]) THEN "high"
  ELSE IF RatLess(level, range.low) THEN "low"
  ELSE "none"

(* the band whose counter the if / else-if chain increments *)
Classify(range, level) ==
  IF RatGreater(level, range.veryHigh) THEN "veryHigh"
  ELSE IF RatGeq(level, range.high[1]) /\ RatLeq(level, range.high[2]) THEN "high"
  ELSE IF RatGeq(level, range.normal[1]) /\ RatLeq(level, range.normal[2]) THEN "normal"
  ELSE IF RatLess(level, range.low) THEN "low"
  ELSE "none"

(* Variant whose chain ends in a plain else that counts the level as low. *)
UpdateCountersElseLow(range, counters, level) ==
  LET band == Classify(range, level) IN
  IF band = "none" THEN [counters EXCEPT !.low = @ + 1]
  ELSE [counters EXCEPT ![band] = @ + 1]

UpdateCounters(range, counters, level) ==
  LET band == Classify(range, level) IN
  IF band = "none" THEN counters
  ELSE [counters EXCEPT ![band] = @ + 1]

(* Variant with the comparison of the lowest value.                        *)
UpdateHighestLess(highest, level) ==
  IF highest = Null \/ RatLess(level, highest) THEN level ELSE highest

UpdateHighest(highest, level) ==
  IF highest = Null \/ RatGreater(level, highest) THEN level ELSE highest

UpdateLowest(lowest, level) ==
  IF lowest = Null \/ RatLess(level, lowest) THEN level ELSE lowest

TotalMeasurements(counters) ==
  counters.veryHigh + counters.high + counters.normal + counters.low

(* Variant that weighs the old average by the new count.                   *)
UpdateAverageCount(average, totalMeasurements, level) ==
  RatDiv(RatAdd(RatMul(OrZero(average), FromInt(totalMeasurements)), level),
         FromInt(totalMeasurements))

UpdateAverage(average, totalMeasurements, level) ==
  RatDiv(RatAdd(RatMul(OrZero(average), FromInt(totalMeasurements - 1)), level),
         FromInt(totalMeasurements))

(* Object.values(timeStats).reduce((total, value) => total + (value ?? 0), 0) *)
RECURSIVE SumValues(_, _)
SumValues(timeStats, keys) ==
  IF keys = {} THEN FromInt(0)
  ELSE LET k == CHOOSE x \in keys : TRUE
       IN RatAdd(SumValues(timeStats, keys \ {k}), timeStats[k])

TotalForCategory(timeStats) == SumValues(timeStats, DOMAIN timeStats)

UpdateTimeStats(timeStats, timeCategory, totalMeasurements, level) ==
  LET currentStat == IF timeCategory \in DOMAIN timeStats
                     THEN timeStats[timeCategory] ELSE FromInt(0)
      totalForCategory == TotalForCategory(timeStats)
      value == RatDiv(RatAdd(RatMul(currentStat,
                                    RatAdd(totalForCategory, FromInt(-1))),
                             level),
                      FromInt(totalMeasurements))
  IN [c \in DOMAIN timeStats \cup {timeCategory} |->
        IF c = timeCategory THEN value ELSE timeStats[c]]

(* the statements of addMeasurement applied to the record `period` *)
UpdatePeriod(range, period, level, timeCategory) ==
  LET counters == UpdateCounters(range, period.counters, level)
      totalMeasurements == TotalMeasurements(counters)
  IN [period EXCEPT
        !.counters  = counters,
        !.highest   = UpdateHighest(period.highest, level),
        !.lowest    = UpdateLowest(period.lowest, level),
        !.average   = UpdateAverage(period.average, totalMeasurements, level),
        !.timeStats = IF timeCategory # NoCategory
                      THEN UpdateTimeStats(period.timeStats, timeCategory,
                                           totalMeasurements, level)
                      ELSE @]

(* { ...obj, [key]: value } *)
SpreadWith(obj, key, value) ==
  [k \in DOMAIN obj \cup {key} |-> IF k = key THEN value ELSE obj[k]]

(* Copy-on-write variant: the new state points at a fresh record and the   *)
(* record the input state holds is left alone.                             *)
AddMeasurementCopy(st, hp, level, timeCategory) ==
  LET period == Lookup(st.statsByPeriod, st.currentPeriod)
      fresh == Cardinality(DOMAIN hp) + 1
  IN IF period.tag # "ref"
     THEN [outcome |-> "TypeError", state |-> st, heap |-> hp]
     ELSE [outcome |-> "ok",
           state   |-> [st EXCEPT !.statsByPeriod =
                          SpreadWith(st.statsByPeriod, st.currentPeriod, fresh)],
           heap    |-> [r \in DOMAIN hp \cup {fresh} |->
                          IF r = fresh
                          THEN UpdatePeriod(st.range, hp[period.ref], level, timeCategory)
                          ELSE hp[r]]]

(* Variant that writes the updated record over every period.               *)
AddMeasurementAll(st, hp, level, timeCategory) ==
  LET period == Lookup(st.statsByPeriod, st.currentPeriod)
  IN IF period.tag # "ref"
     THEN [outcome |-> "TypeError", state |-> st, heap |-> hp]
     ELSE [outcome |-> "ok",
           state   |-> st,
           heap    |-> [r \in DOMAIN hp |->
                          UpdatePeriod(st.range, hp[r], level, timeCategory)]]

(* addMeasurement(state, level, timeCategory): `period` is the value of    *)
(* state.statsByPeriod[state.currentPeriod].  When that value is not one   *)
(* of the records (an inherited Object.prototype member), period.counters  *)
(* is undefined and reading a counter of it throws a TypeError before any  *)
(* assignment.  Otherwise the record is updated in place and the returned  *)
(* state holds the same reference.                                         *)
AddMeasurement(st, hp, level, timeCategory) ==
  LET period == Lookup(st.statsByPeriod, st.currentPeriod)
  IN IF period.tag # "ref"
     THEN [outcome |-> "TypeError", state |-> st, heap |-> hp]
     ELSE [outcome |-> "ok",
           state   |-> [st EXCEPT !.statsByPeriod =
                          SpreadWith(st.statsByPeriod, st.currentPeriod, period.ref)],
           heap    |-> [hp EXCEPT ![period.ref] =
                          UpdatePeriod(st.range, hp[period.ref], level, timeCategory)]]

----------------------------------------------------------------------------
(* getCurrentPeriodStats: the record, or Null for a value that is not one  *)
(* of the records.                                                         *)
GetCurrentPeriodStats(st, hp) ==
  LET v == Lookup(st.statsByPeriod, st.currentPeriod)
  IN IF v.tag = "ref" THEN hp[v.ref] ELSE Null

(* Variant that returns without selecting the period.                      *)
SwitchPeriodKeep(st, period) ==
  IF ~Truthy(Lookup(st.statsByPeriod, period))
  THEN [outcome |-> "Error: Invalid period", state |-> st]
  ELSE [outcome |-> "ok", state |-> st]

(* switchPeriod *)
SwitchPeriod(st, period) ==
  IF ~Truthy(Lookup(st.statsByPeriod, period))
  THEN [outcome |-> "Error: Invalid period", state |-> st]
  ELSE [outcome |-> "ok", state |-> [st EXCEPT !.currentPeriod = period]]

----------------------------------------------------------------------------
(* Inputs *)

(* levels on and around the band boundaries of the initial thresholds *)
InitialLevels ==
  {Rat(3, 1), Rat(4, 1), Rat(6, 1), Rat(9, 1), Rat(10, 1), NaN}

(* levels inside and beside the gaps of GapLowNormal and GapNormalHigh *)
GapLevels ==
  {Rat(3, 1), Rat(6, 1), Rat(13, 2), Rat(7, 1)}

Cats == {NoCategory, "beforeBreakfast", "afterLunch"}

(* labels passed to switchPeriod: keys of statsByPeriod, a name that is    *)
(* nowhere and a name that Object.prototype defines                        *)
Labels == {"7", "14", "nonexistent", "toString"}

GapLowNormal ==
  [veryHigh |-> FromInt(9),
   high     |-> <<FromInt(6), FromInt(9)>>,
   normal   |-> <<FromInt(4), FromInt(6)>>,
   low      |-> FromInt(3)]

GapNormalHigh ==
  [veryHigh |-> FromInt(9),
   high     |-> <<FromInt(7), FromInt(9)>>,
   normal   |-> <<FromInt(4), FromInt(6)>>,
   low      |-> FromInt(4)]

Ranges == {GapLowNormal, GapNormalHigh}

LevelsFor(range) == IF range = InitialRange THEN InitialLevels ELSE GapLevels

----------------------------------------------------------------------------
(* State machine: a caller holds `state` and calls the API on it.  hist    *)
(* keeps, per period label, the levels recorded while it was current, and  *)
(* lastOp the last call and its outcome.                                   *)

NoOp == [kind |-> "init", level |-> Null, cat |-> NoCategory, label |-> "",
         outcome |-> "ok"]

RECURSIVE SumLen(_, _)
SumLen(h, keys) ==
  IF keys = {} THEN 0
  ELSE LET k == CHOOSE x \in keys : TRUE
       IN Len(h[k]) + SumLen(h, keys \ {k})

Recorded == SumLen(hist, PeriodLabels)

InitWith(range) ==
  /\ state = [initialState EXCEPT !.range = range]
  /\ heap = InitialHeap
  /\ hist = [l \in PeriodLabels |-> <<>>]
  /\ lastOp = NoOp

Init == InitWith(InitialRange)

InitRanges == \E range \in Ranges : InitWith(range)

RecordMeasurement(level, cat) ==
  /\ Recorded < MaxRecords
  /\ LET res == AddMeasurement(state, heap, level, cat) IN
       /\ state' = res.state
       /\ heap' = res.heap
       /\ hist' = IF res.outcome = "ok"
                  THEN [hist EXCEPT ![state.currentPeriod] = Append(@, level)]
                  ELSE hist
       /\ lastOp' = [kind |-> "record", level |-> level, cat |-> cat,
                     label |-> "", outcome |-> res.outcome]

SwitchWindow(label) ==
  /\ LET res == SwitchPeriod(state, label) IN
       /\ state' = res.state
       /\ lastOp' = [kind |-> "switch", level |-> Null, cat |-> NoCategory,
                     label |-> label, outcome |-> res.outcome]
  /\ UNCHANGED <<heap, hist>>

Next ==
  \/ \E level \in LevelsFor(state.range), cat \in Cats : RecordMeasurement(level, cat)
  \/ \E label \in Labels : SwitchWindow(label)

Spec == Init /\ [][Next]_vars

SpecRanges == InitRanges /\ [][Next]_vars

----------------------------------------------------------------------------
(* Vocabulary of the properties.  In a step formula the unprimed variables *)
(* are the caller's state and the heap before the call, the primed ones    *)
(* after it; lastOp' names the call that made the step.                    *)

Bands == {"veryHigh", "high", "normal", "low"}

HasWindow(st) == st.currentPeriod \in DOMAIN st.statsByPeriod

(* the record a state object holds under a label *)
RecordOf(st, hp, label) == hp[st.statsByPeriod[label]]

Elems(sq) == {sq[i] : i \in 1..Len(sq)}

RECURSIVE SumSeq(_)
SumSeq(sq) == IF sq = <<>> THEN FromInt(0) ELSE RatAdd(Head(sq), SumSeq(Tail(sq)))

Mean(sq) == RatDiv(SumSeq(sq), FromInt(Len(sq)))

IsMaximum(m, S) == m \in S /\ \A x \in S : RatLeq(x, m)

IsMinimum(m, S) == m \in S /\ \A x \in S : RatLeq(m, x)

RecordReturned == lastOp'.kind = "record" /\ lastOp'.outcome = "ok"

(* the level matches none of the four tests of the thresholds *)
NoBand(range, level) ==
  /\ ~RatGreater(level, range.veryHigh)
  /\ ~(RatGeq(level, range.high[1]) /\ RatLeq(level, range.high[2]))
  /\ ~(RatGeq(level, range.normal[1]) /\ RatLeq(level, range.normal[2]))
  /\ ~RatLess(level, range.low)

(* the thresholds leave a gap between two neighbouring bands *)
HasGap(range) ==
  \/ RatLess(range.low, range.normal[1])
  \/ RatLess(range.normal[2], range.high[1])
  \/ RatLess(range.high[2], range.veryHigh)

----------------------------------------------------------------------------
(* C1: switchPeriod(s, label) with a label that is not a key of            *)
(* s.statsByPeriod fails with the invalid-period error and leaves the      *)
(* state and every period's statistics as they were.                       *)
C1_InvalidLabelRejected ==
  [][(lastOp'.kind = "switch" /\ lastOp'.label \notin DOMAIN state.statsByPeriod)
       => /\ lastOp'.outcome = "Error: Invalid period"
          /\ state' = state
          /\ heap' = heap]_vars

----------------------------------------------------------------------------
(* C2: switchPeriod(s, L) with L a key of s.statsByPeriod succeeds; the    *)
(* returned state has currentPeriod = L, the same thresholds and the same  *)
(* statistics mapping, no record changes, getCurrentPeriodStats of the     *)
(* returned state is s.statsByPeriod[L], and for L the current label the   *)
(* returned state equals s.                                                *)
C2_SwitchToValidLabel ==
  [][(lastOp'.kind = "switch" /\ lastOp'.label \in DOMAIN state.statsByPeriod)
       => /\ lastOp'.outcome = "ok"
          /\ state'.currentPeriod = lastOp'.label
          /\ state'.statsByPeriod = state.statsByPeriod
          /\ state'.range = state.range
          /\ heap' = heap
          /\ GetCurrentPeriodStats(state', heap')
               = RecordOf(state, heap, lastOp'.label)
          /\ (lastOp'.label = state.currentPeriod => state' = state)]_vars

(* a switch to "14" after a reading went into "7" *)
C2_Witness ==
  /\ lastOp.kind = "switch"
  /\ lastOp.outcome = "ok"
  /\ lastOp.label = "14"
  /\ state.currentPeriod = "14"
  /\ hist["7"] # <<>>

----------------------------------------------------------------------------
(* C3: in every reachable state currentPeriod is a key of statsByPeriod    *)
(* and the keys of statsByPeriod are exactly "7", "14", "30", "90".        *)
C3_CurrentPeriodIsKey ==
  /\ DOMAIN state.statsByPeriod = PeriodLabels
  /\ state.currentPeriod \in DOMAIN state.statsByPeriod

----------------------------------------------------------------------------
(* the band the first matching test selects under the initial thresholds   *)
ExpectedBand(level) ==
  IF RatGreater(level, FromInt(9)) THEN "veryHigh"
  ELSE IF RatGeq(level, FromInt(6)) /\ RatLeq(level, FromInt(9)) THEN "high"
  ELSE IF RatGeq(level, FromInt(4)) /\ RatLeq(level, FromInt(6)) THEN "normal"
  ELSE IF RatLess(level, FromInt(4)) THEN "low"
  ELSE "none"

IncrementsOnly(old, new, band) ==
  /\ band \in Bands
  /\ new = [old EXCEPT ![band] = @ + 1]

(* C4 as stated: with the initial thresholds every addMeasurement call     *)
(* increments exactly one counter of the current period by 1, the one of   *)
(* the first matching test (> 9, [6,9], [4,6], < 4).                       *)
C4_EveryCallCounts ==
  [][(RecordReturned /\ state.range = InitialRange)
       => IncrementsOnly(GetCurrentPeriodStats(state, heap).counters,
                         GetCurrentPeriodStats(state', heap').counters,
                         ExpectedBand(lastOp'.level))]_vars

(* C4 amended: the same for every level other than NaN; 6 and 9 count as   *)
(* high and 4 counts as normal.                                            *)
C4_OneCounterPerReading ==
  [][(RecordReturned /\ state.range = InitialRange /\ ~IsNaN(lastOp'.level))
       => IncrementsOnly(GetCurrentPeriodStats(state, heap).counters,
                         GetCurrentPeriodStats(state', heap').counters,
                         ExpectedBand(lastOp'.level))]_vars

(* a first reading of exactly 6 was counted as high *)
C4_Witness ==
  /\ lastOp.kind = "record"
  /\ lastOp.outcome = "ok"
  /\ lastOp.level = FromInt(6)
  /\ state.range = InitialRange
  /\ GetCurrentPeriodStats(state, heap).counters
       = [EmptyCounters EXCEPT !.high = 1]

----------------------------------------------------------------------------
(* C5: addMeasurement leaves the thresholds, currentPeriod, the keys and   *)
(* the record of every period other than the current one as they were (a   *)
(* call that throws changes nothing at all); switchPeriod changes no       *)
(* record; so a period into which nothing was recorded still has its       *)
(* initial statistics.                                                     *)
C5_OnlyCurrentPeriodChanges ==
  [][/\ lastOp'.kind = "record"
          => /\ state'.range = state.range
             /\ state'.currentPeriod = state.currentPeriod
             /\ DOMAIN state'.statsByPeriod = DOMAIN state.statsByPeriod
             /\ \A l \in DOMAIN state.statsByPeriod \ {state.currentPeriod} :
                  /\ RecordOf(state', heap', l) = RecordOf(state, heap, l)
                  /\ RecordOf(state, heap', l) = RecordOf(state, heap, l)
             /\ (lastOp'.outcome # "ok" => state' = state /\ heap' = heap)
     /\ lastOp'.kind = "switch"
          => /\ heap' = heap
             /\ state'.statsByPeriod = state.statsByPeriod
     /\ \A l \in PeriodLabels :
          hist'[l] = <<>> => RecordOf(state', heap', l) = RecordOf(initialState, InitialHeap, l)
    ]_vars

(* a reading went into "14" while "7" already held one *)
C5_Witness ==
  /\ lastOp.kind = "record"
  /\ lastOp.outcome = "ok"
  /\ state.currentPeriod = "14"
  /\ Len(hist["14"]) = 1
  /\ Len(hist["7"]) = 1
  /\ hist["30"] = <<>>

----------------------------------------------------------------------------
(* C6: a call with a timeCategory sets that category's running average to  *)
(* (old * (n - 1) + level) / n, old being its previous value (0 when       *)
(* absent) and n the sum of the four counters after the increment, and     *)
(* leaves the entries of the other categories as they were.  Stated for    *)
(* the periods whose recorded levels are all finite.                       *)
C6_TimeCategoryMean ==
  [][(/\ RecordReturned
      /\ lastOp'.cat # NoCategory
      /\ \A x \in Elems(hist'[state.currentPeriod]) : IsFinite(x))
       => LET old == GetCurrentPeriodStats(state, heap).timeStats
              new == GetCurrentPeriodStats(state', heap').timeStats
              n   == TotalMeasurements(GetCurrentPeriodStats(state', heap').counters)
              oldCategoryAvg == IF lastOp'.cat \in DOMAIN old
                                THEN old[lastOp'.cat] ELSE FromInt(0)
          IN /\ DOMAIN new = DOMAIN old \cup {lastOp'.cat}
             /\ new[lastOp'.cat]
                  = RatDiv(RatAdd(RatMul(oldCategoryAvg, FromInt(n - 1)),
                                  lastOp'.level),
                           FromInt(n))
             /\ \A c \in DOMAIN old \ {lastOp'.cat} : new[c] = old[c]]_vars

----------------------------------------------------------------------------
(* 5.5 "beforeBreakfast" then 7.8 "afterLunch" into a fresh period *)
ExamplePeriod ==
  UpdatePeriod(InitialRange,
               UpdatePeriod(InitialRange, FreshPeriod(7), Rat(11, 2), "beforeBreakfast"),
               Rat(39, 5), "afterLunch")

(* C7: after addMeasurement the current period's average is                *)
(* (oldAvg * (n - 1) + level) / n with n the sum of the four counters      *)
(* after the increment and a null oldAvg taken as 0; and with the initial  *)
(* thresholds the average of every period is the arithmetic mean of the    *)
(* levels recorded into it (5.5 then 7.8 gives 6.65).                      *)
C7_RunningAverage ==
  /\ [](/\ \A l \in PeriodLabels :
             (state.range = InitialRange /\ hist[l] # <<>>)
               => RecordOf(state, heap, l).average = Mean(hist[l])
        /\ ExamplePeriod.average = Rat(133, 20))
  /\ [][RecordReturned
          => LET old == GetCurrentPeriodStats(state, heap)
                 new == GetCurrentPeriodStats(state', heap')
                 n   == TotalMeasurements(new.counters)
             IN new.average
                  = RatDiv(RatAdd(RatMul(OrZero(old.average), FromInt(n - 1)),
                                  lastOp'.level),
                           FromInt(n))]_vars

(* two different finite levels went into one period *)
C7_Witness ==
  /\ lastOp.kind = "record"
  /\ lastOp.outcome = "ok"
  /\ state.range = InitialRange
  /\ hist[state.currentPeriod] = <<FromInt(4), FromInt(9)>>
  /\ GetCurrentPeriodStats(state, heap).average = Rat(13, 2)

----------------------------------------------------------------------------
(* C8 as stated: for every period, highest and lowest are null exactly     *)
(* when nothing was recorded into it, and otherwise highest is the maximum *)
(* and lowest the minimum of the levels recorded into it, with             *)
(* lowest <= highest.                                                      *)
C8_HighestLowest ==
  \A l \in PeriodLabels :
    LET p == RecordOf(state, heap, l) IN
    /\ (p.highest = Null) <=> (hist[l] = <<>>)
    /\ (p.lowest = Null) <=> (hist[l] = <<>>)
    /\ hist[l] # <<>>
         => /\ IsMaximum(p.highest, Elems(hist[l]))
            /\ IsMinimum(p.lowest, Elems(hist[l]))
            /\ RatLeq(p.lowest, p.highest)

(* C8 amended: the same, the maximum, the minimum and lowest <= highest    *)
(* being claimed for the periods into which no NaN level was recorded.     *)
C8_HighestLowestWithoutNaN ==
  \A l \in PeriodLabels :
    LET p == RecordOf(state, heap, l) IN
    /\ (p.highest = Null) <=> (hist[l] = <<>>)
    /\ (p.lowest = Null) <=> (hist[l] = <<>>)
    /\ (hist[l] # <<>> /\ NaN \notin Elems(hist[l]))
         => /\ IsMaximum(p.highest, Elems(hist[l]))
            /\ IsMinimum(p.lowest, Elems(hist[l]))
            /\ RatLeq(p.lowest, p.highest)

(* a later reading raised highest and left lowest *)
C8_Witness ==
  /\ lastOp.kind = "record"
  /\ lastOp.outcome = "ok"
  /\ hist[state.currentPeriod] = <<FromInt(6), FromInt(10)>>
  /\ GetCurrentPeriodStats(state, heap).highest = FromInt(10)
  /\ GetCurrentPeriodStats(state, heap).lowest = FromInt(6)

----------------------------------------------------------------------------
(* C9 as stated: after newState = addMeasurement(s, level, cat) the input  *)
(* state s and the module-level initialState hold, under the current       *)
(* label, the same record as newState, so getCurrentPeriodStats(s) after   *)
(* the call equals getCurrentPeriodStats(newState), and it differs from    *)
(* getCurrentPeriodStats(s) before the call.                               *)
C9_InputStateShowsReading ==
  [][RecordReturned
       => LET shared == [initialState EXCEPT !.currentPeriod = state.currentPeriod]
          IN /\ state'.statsByPeriod[state.currentPeriod]
                  = state.statsByPeriod[state.currentPeriod]
             /\ GetCurrentPeriodStats(state, heap') = GetCurrentPeriodStats(state', heap')
             /\ GetCurrentPeriodStats(shared, heap') = GetCurrentPeriodStats(state', heap')
             /\ GetCurrentPeriodStats(state, heap') # GetCurrentPeriodStats(state, heap)]_vars

(* C9 amended: the same, the record differing from its value before the    *)
(* call whenever the level matches one of the four band tests.             *)
C9_InputStateSharesRecord ==
  [][RecordReturned
       => LET shared == [initialState EXCEPT !.currentPeriod = state.currentPeriod]
          IN /\ state'.statsByPeriod[state.currentPeriod]
                  = state.statsByPeriod[state.currentPeriod]
             /\ GetCurrentPeriodStats(state, heap') = GetCurrentPeriodStats(state', heap')
             /\ GetCurrentPeriodStats(shared, heap') = GetCurrentPeriodStats(state', heap')
             /\ ~NoBand(state.range, lastOp'.level)
                  => GetCurrentPeriodStats(state, heap') # GetCurrentPeriodStats(state, heap)]_vars

(* a second reading went into the record that initialState holds *)
C9_Witness ==
  /\ lastOp.kind = "record"
  /\ lastOp.outcome = "ok"
  /\ lastOp.cat = "afterLunch"
  /\ Len(hist["7"]) = 2
  /\ state.currentPeriod = "7"
  /\ TotalMeasurements(RecordOf(initialState, heap, "7").counters) = 2

----------------------------------------------------------------------------
(* C10: with thresholds that leave a gap, a call whose level matches none  *)
(* of the four tests increments no counter, and highest, lowest and        *)
(* average are still assigned from the level: highest and lowest by the    *)
(* usual comparisons, average by (oldAvg * (n - 1) + level) / n with n the *)
(* unchanged sum of the counters (n = 0 on a fresh period, where the       *)
(* division by zero gives an infinity).                                    *)
C10_GapReading ==
  [][(RecordReturned /\ HasGap(state.range) /\ NoBand(state.range, lastOp'.level))
       => LET old == GetCurrentPeriodStats(state, heap)
              new == GetCurrentPeriodStats(state', heap')
              n   == TotalMeasurements(old.counters)
              level == lastOp'.level
          IN /\ new.counters = old.counters
             /\ new.highest = IF old.highest = Null \/ RatGreater(level, old.highest)
                              THEN level ELSE old.highest
             /\ new.lowest = IF old.lowest = Null \/ RatLess(level, old.lowest)
                             THEN level ELSE old.lowest
             /\ new.average # Null
             /\ new.average
                  = RatDiv(RatAdd(RatMul(OrZero(old.average), FromInt(n - 1)), level),
                           FromInt(n))]_vars

(* 6.5 was recorded into a fresh period whose thresholds skip (6, 7) *)
C10_Witness ==
  /\ lastOp.kind = "record"
  /\ lastOp.outcome = "ok"
  /\ state.range = GapNormalHigh
  /\ lastOp.level = Rat(13, 2)
  /\ hist[state.currentPeriod] = <<Rat(13, 2)>>
  /\ GetCurrentPeriodStats(state, heap).counters = EmptyCounters
  /\ GetCurrentPeriodStats(state, heap).highest = Rat(13, 2)
  /\ GetCurrentPeriodStats(state, heap).lowest = Rat(13, 2)
  /\ GetCurrentPeriodStats(state, heap).average = PosInf

====
